---------------------------- MODULE Spec2Model ----------------------------
(***************************************************************************)
(* Model of michelanglo_protein/analyse/pyrosetta_modifier.py:             *)
(*   - paratest: the supervisor that runs one Mutator job in a child       *)
(*     process and waits for its result over a Pipe;                       *)
(*   - paratest.subpro: the worker (reinit, Mutator(...), analyse_mutation,*)
(*     send) with its BaseException handler;                               *)
(*   - Mutator.__init__ / analyse_mutation: the staged precise-mode job.   *)
(* The engine (pyrosetta) is external: the energy it returns for a pose,   *)
(* and whether a call returns, raises, kills the process or never returns, *)
(* are nondeterministic choices.                                           *)
(* Connection.send is taken as atomic: a message is in the pipe whole or   *)
(* not at all.                                                             *)
(***************************************************************************)
EXTENDS Integers, Sequences, FiniteSets, TLC

\* ------------------------------------------------------------------ bounds
\* energies the scoring function can return are 0..MaxEnergy
MaxEnergy == 1
\* pose (internal) residue indices are 1..NRes; 0 is "not in the structure"
NRes == 2
\* the poll counter of the wait loop saturates at MaxPolls
MaxPolls == 3
\* the wall-clock budget of spec section 4.5, in polling intervals
TimeoutPolls == 2

Energies == 0..MaxEnergy
PoseIdx  == 1..NRes

\* The structure loaded: chain A, whose first residue is missing (a gap), so
\* that its PDB residue number res is pose residue res - 1, for the pose
\* residues PoseIdx; and after it one residue of chain B, numbered 2 as the
\* first residue of chain A is.
ChainBIdx == NRes + 1
StructIdx == 1..ChainBIdx

\* pose.pdb_info() of the loaded structure: chain and residue number per residue
PdbInfo ==
    [i \in StructIdx |->
        IF i \in PoseIdx THEN [chain |-> "A", res |-> i + 1]
                         ELSE [chain |-> "B", res |-> 2]]

\* info.pdb2pose(chain=chain, res=res): 0 when the residue is not there
Lookup(info, chain, res) ==
    IF \E i \in DOMAIN info : info[i] = [chain |-> chain, res |-> res]
    THEN CHOOSE i \in DOMAIN info : info[i] = [chain |-> chain, res |-> res]
    ELSE 0

VARIABLES
    sup_pc,            \* position of paratest after Pipe()/Process()
    elapsed,           \* number of time.sleep(5) calls done (saturating)
    chan,              \* messages written to child_conn, unread by parent_conn
    delivered,         \* what parent_conn.recv() has returned (msg)
    w_pc,              \* position of the worker process in subpro
    initCalls,         \* pyrosetta.init calls made inside the worker process
    target,            \* self._pdb2pose(target): pose index of the target, 0 if absent
    use_pymol,         \* use_pymol_for_neighbours
    pose,              \* self.pose
    native,            \* self.native
    scores,            \* self.scores, an insertion-ordered dict
    neighbour_vector,  \* self.neighbour_vector
    cart_bonded,       \* self.scorefxn.get_weight(ScoreType.cart_bonded)
    relax,             \* self.relax: the FastRelax mover's settings
    movemap,           \* self.movemap: the residues whose bb and chi may move
    nblock,            \* nblock of analyse_mutation: the native PDB block
    data,              \* the dict analyse_mutation returned
    error,             \* the exception being handled in subpro
    raised_at,         \* history: the worker position where the exception was raised
    fault,             \* history: what made the worker raise or die outside the code's
                       \* own raise statements ("engine", "index0") or "none"
    stages,            \* history: the Mutator steps completed, in order
    sent,              \* history: the messages the worker itself sent
    api_pc,            \* a Mutator used directly: the method being executed, or "idle"
    calls,             \* number of method calls made on the Mutator
    batch_calls,       \* history: number of repack_other / score_gnomads calls made
    gnomads,           \* score_gnomads: the number of records still to loop over
    ddG,               \* score_gnomads: its ddG dict
    last_cand,         \* history: <<pose index, to_resi>> of the last _repack_gnomad
    last_record,       \* history: the record the loop of score_gnomads looked at last
    ret,               \* the value the last call returned
    ptms,              \* make_phospho: the number of records still to loop over
    phospho,           \* make_phospho: its clone of the pose
    changes,           \* make_phospho: its local changes
    last_ptm,          \* history: the last record make_phospho looped over and
                       \* what was done with it
    applied,           \* history: number of MutateResidue movers applied by the call
    heap,              \* interleaved _repack_gnomad: the Pose objects cloned so far
    self_pose,         \* interleaved _repack_gnomad: the object self.pose refers to
    threads,           \* interleaved _repack_gnomad: per execution its position,
                       \* arguments, ref, result and the objects it mutated or scored
    sequence,          \* ProteinAnalyser: self.sequence, a string
    mutation,          \* ProteinAnalyser: self.mutation
    an_pc,             \* ProteinAnalyser: position in predict_effect
    an_ret             \* ProteinAnalyser: what the methods called so far returned
                       \* or raised

vars == <<sup_pc, elapsed, chan, delivered, w_pc, initCalls, target, use_pymol, pose,
          cart_bonded, relax,
          native, scores, neighbour_vector, movemap, nblock, data, error, raised_at,
          fault, stages, sent, api_pc, calls, batch_calls, gnomads, ddG, last_cand,
          last_record, ret, ptms, phospho, changes, last_ptm, applied, heap, self_pose,
          threads, sequence, mutation, an_pc, an_ret>>

supvars == <<sup_pc, elapsed, delivered>>
histvars == <<raised_at, fault, sent>>
\* what no step of paratest or of the worker changes
apivars == <<api_pc, calls, batch_calls, gnomads, ddG, last_cand, last_record, ret>>
ptmvars == <<ptms, phospho, changes, last_ptm, applied>>
concvars == <<heap, self_pose, threads>>
anvars == <<sequence, mutation, an_pc, an_ret>>
jobframe == <<target, use_pymol, cart_bonded, anvars, apivars, ptmvars, concvars>>
mutvars == <<pose, native, scores, neighbour_vector, movemap, relax, nblock, data>>

\* ----------------------------------------------------------------- values
NoPose == [energy |-> -1, seq |-> <<>>, pdb_info |-> <<>>]
NoMask == {0}
NoRelax == [cartesian |-> FALSE, cycles |-> 0]
\* weight of cart_bonded in the default score function 'ref2015', line 67
Ref2015CartBonded == 0
\* cycles=1 in the kwargs of paratest, line 440
ParatestCycles == 1
NoData == [none |-> TRUE]
NoError == [cls |-> "none", text |-> "none"]
NoRet == [none |-> TRUE]
\* no record of score_gnomads looked at yet
NoRecord == [type |-> "none", x |-> 0, description |-> <<>>]
\* no record of make_phospho looped over yet
NoPtm == [did |-> "none"]

\* nothing returned or raised yet by a ProteinAnalyser
NoAnRet == [kind |-> "none", why |-> "none", neighbours |-> <<>>, mut_neighbours |-> <<>>]
NoMutation == [residue_index |-> 0, from_residue |-> <<>>, to_residue |-> <<>>]

\* the variables of a ProteinAnalyser, while none is in use
AnalyserUnused ==
    /\ sequence = <<>>
    /\ mutation = NoMutation
    /\ an_pc = "unused"
    /\ an_ret = NoAnRet

\* the variables of a Mutator used directly, while it is only run by paratest
ApiUnused ==
    /\ api_pc = "idle"
    /\ calls = 0
    /\ batch_calls = 0
    /\ gnomads = 0
    /\ ddG = <<>>
    /\ last_cand = <<>>
    /\ last_record = NoRecord
    /\ ret = NoRet
    /\ ptms = 0
    /\ phospho = NoPose
    /\ changes = 0
    /\ last_ptm = NoPtm
    /\ applied = 0
    /\ heap = <<>>
    /\ self_pose = 0
    /\ threads = <<>>

\* {'error': 'segmentation fault'}, line 466
CrashMsg == [error |-> <<"segmentation fault">>]

\* the error record under another key
ErrorMsgOtherKey(e) == [exception |-> <<e.cls, e.text>>]

\* {'error': f'{error.__class__.__name__}:{error}'}, line 453
ErrorMsg(e) == [error |-> <<e.cls, e.text>>]

IsFailure(m) == "error" \in DOMAIN m
IsSuccess(m) == "ddG" \in DOMAIN m

\* ----------------------------------------------------- the scores dict
Labels(sc) == {sc[i][1] : i \in 1..Len(sc)}

Score(sc, label) == LET i == CHOOSE j \in 1..Len(sc) : sc[j][1] = label IN sc[i][2]

\* self.scores[label] = v
DictSet(sc, label, v) ==
    IF label \in Labels(sc)
    THEN [i \in 1..Len(sc) |-> IF sc[i][1] = label THEN <<label, v>> ELSE sc[i]]
    ELSE Append(sc, <<label, v>>)

\* self.scorefxn(p)
Scorefxn(p) == p.energy

\* Mutator.mark
Mark(sc, label, p) == DictSet(sc, label, Scorefxn(p))

\* ------------------------------------------------------ worker positions
\* the statements of subpro, Mutator.__init__ and analyse_mutation in order
WorkerSteps ==
    << "reinit", "scorefxn", "load_pose", "mark_raw", "neighbours", "ready_relax",
       "do_relax", "mark_relaxed", "clone_native", "mutate", "mark_mutate",
       "do_mutarelax", "mark_mutarelax", "result", "send", "completed" >>

StepIndex(s) == CHOOSE i \in 1..Len(WorkerSteps) : WorkerSteps[i] = s

\* the statement that follows s when s returns normally
NextStepSwapped(s) ==
    IF s = "load_pose" THEN "neighbours"
    ELSE IF s = "neighbours" THEN "mark_raw"
    ELSE IF s = "mark_raw" THEN "ready_relax"
    ELSE IF s = "completed" THEN "exited"
    ELSE WorkerSteps[StepIndex(s) + 1]

NextStepCloneLate(s) ==
    IF s = "mark_relaxed" THEN "mutate"
    ELSE IF s = "mutate" THEN "clone_native"
    ELSE IF s = "clone_native" THEN "mark_mutate"
    ELSE IF s = "completed" THEN "exited"
    ELSE WorkerSteps[StepIndex(s) + 1]

NextStep(s) ==
    IF s = "completed" THEN "exited" ELSE WorkerSteps[StepIndex(s) + 1]

\* everything inside the try block that calls into the engine or the pipe
TrySteps == {WorkerSteps[i] : i \in 1..(Len(WorkerSteps) - 1)}
EngineSteps == TrySteps \ {"send"}

\* multiprocessing.Process.is_alive()
IsAlive == w_pc \notin {"unstarted", "exited", "crashed"}

\* ------------------------------------------------------------------- Init
Init ==
    /\ sup_pc = "start"
    /\ elapsed = 0
    /\ chan = <<>>
    /\ delivered = <<>>
    /\ w_pc = "unstarted"
    /\ initCalls = 0
    /\ target \in 0..NRes
    /\ use_pymol = TRUE
    /\ pose = NoPose
    /\ native = NoPose
    /\ scores = <<>>
    /\ neighbour_vector = NoMask
    /\ movemap = NoMask
    /\ cart_bonded = Ref2015CartBonded
    /\ relax = NoRelax
    /\ nblock = NoPose
    /\ data = NoData
    /\ error = NoError
    /\ raised_at = "none"
    /\ fault = "none"
    /\ stages = <<>>
    /\ sent = <<>>
    /\ ApiUnused
    /\ AnalyserUnused

\* ------------------------------------------------------------- supervisor
\* p.start(), line 457
SupStart ==
    /\ sup_pc = "start"
    /\ sup_pc' = "sleep"
    /\ w_pc' = "reinit"
    /\ UNCHANGED <<elapsed, chan, delivered, initCalls, jobframe, mutvars, error,
                   raised_at, fault, stages, sent>>

\* time.sleep(5), line 460
SupSleep ==
    /\ sup_pc = "sleep"
    /\ sup_pc' = "print_poll"
    /\ elapsed' = IF elapsed < MaxPolls THEN elapsed + 1 ELSE elapsed
    /\ UNCHANGED <<chan, delivered, w_pc, initCalls, jobframe, mutvars, error,
                   raised_at, fault, stages, sent>>

\* print(parent_conn.poll()), line 461
SupPrintPoll ==
    /\ sup_pc = "print_poll"
    /\ sup_pc' = "poll"
    /\ UNCHANGED <<elapsed, chan, delivered, w_pc, initCalls, jobframe, mutvars, error,
                   raised_at, fault, stages, sent>>

\* parent_conn.poll()
Poll(ch) == ch # <<>>

\* if parent_conn.poll(): break, lines 462-464
SupPoll ==
    /\ sup_pc = "poll"
    /\ sup_pc' = IF Poll(chan) THEN "recv" ELSE "is_alive"
    /\ UNCHANGED <<elapsed, chan, delivered, w_pc, initCalls, jobframe, mutvars, error,
                   raised_at, fault, stages, sent>>

\* what the loop does when p.is_alive() is False: child_conn.send(...), line 466
OnDeadSilent(ch) == ch

OnDeadOther(ch) == Append(ch, [error |-> <<"exited">>])

OnDead(ch) == Append(ch, CrashMsg)

\* elif not p.is_alive(): child_conn.send({'error': ...}); break, lines 465-467
SupIsAlive ==
    /\ sup_pc = "is_alive"
    /\ IF ~IsAlive
       THEN /\ chan' = OnDead(chan)
            /\ sup_pc' = "recv"
       ELSE /\ chan' = chan
            /\ sup_pc' = "sleep"
    /\ UNCHANGED <<elapsed, delivered, w_pc, initCalls, jobframe, mutvars, error,
                   raised_at, fault, stages, sent>>

\* the message recv() takes out of the pipe: the oldest one
RecvNewest(ch) == ch[Len(ch)]

RecvMsg(ch) == Head(ch)

\* msg = parent_conn.recv(), line 468: blocks while the pipe is empty
SupRecv ==
    /\ sup_pc = "recv"
    /\ chan # <<>>
    /\ delivered' = Append(delivered, RecvMsg(chan))
    /\ chan' = Tail(chan)
    /\ sup_pc' = "done"
    /\ UNCHANGED <<elapsed, w_pc, initCalls, jobframe, mutvars, error,
                   raised_at, fault, stages, sent>>

\* ----------------------------------------------------------------- worker
\* the engine is external: what a call can raise
Exceptions ==
    { [cls |-> "RuntimeError", text |-> "engine"],
      [cls |-> "KeyboardInterrupt", text |-> ""] }

\* raise ValueError('Residue not in structure'), line 218
NotInStructure == [cls |-> "ValueError", text |-> "Residue not in structure"]

WReinitSkipped ==
    /\ w_pc = "reinit"
    /\ w_pc' = NextStep("reinit")
    /\ stages' = Append(stages, "reinit")
    /\ UNCHANGED <<supvars, chan, initCalls, jobframe, mutvars, error, histvars>>

\* Mutator.reinit(), lines 122-127 and 445
WReinit ==
    /\ w_pc = "reinit"
    /\ initCalls' = initCalls + 1
    /\ w_pc' = NextStep("reinit")
    /\ stages' = Append(stages, "reinit")
    /\ UNCHANGED <<supvars, chan, jobframe, mutvars, error, histvars>>

\* Mutator.__init__, lines 92-106: engine options, score function, fields
WScorefxn ==
    /\ w_pc = "scorefxn"
    /\ scores' = <<>>
    /\ w_pc' = NextStep("scorefxn")
    /\ stages' = Append(stages, "scorefxn")
    /\ UNCHANGED <<supvars, chan, initCalls, jobframe, pose, native, neighbour_vector,
                   movemap, relax, nblock, data, error, histvars>>

\* self.pose = self.load_pose(), lines 107 and 129-142
WLoadPose ==
    /\ w_pc = "load_pose"
    /\ \E e \in Energies :
          pose' = [energy |-> e, seq |-> [i \in StructIdx |-> "wt"], pdb_info |-> PdbInfo]
    /\ w_pc' = NextStep("load_pose")
    /\ stages' = Append(stages, "load_pose")
    /\ UNCHANGED <<supvars, chan, initCalls, jobframe, native, scores, neighbour_vector,
                   movemap, relax, nblock, data, error, histvars>>

\* self.mark(label) at the four places it is called: lines 108, 281, 285, 287
MarkLabel(s) ==
    CASE s = "mark_raw" -> "raw"
      [] s = "mark_relaxed" -> "relaxed"
      [] s = "mark_mutate" -> "mutate"
      [] s = "mark_mutarelax" -> "mutarelax"

WMark ==
    /\ w_pc \in {"mark_raw", "mark_relaxed", "mark_mutate", "mark_mutarelax"}
    /\ scores' = Mark(scores, MarkLabel(w_pc), pose)
    /\ w_pc' = NextStep(w_pc)
    /\ stages' = Append(stages, w_pc)
    /\ UNCHANGED <<supvars, chan, initCalls, jobframe, pose, native, neighbour_vector,
                   movemap, relax, nblock, data, error, histvars>>

\* calculate_neighbours_in_pymol, lines 144-160, each Target it returns already
\* passed through target_pdb2pose (0: the residue is not in the pose). The
\* selection is "name CA and (byres chain C and resi N around radius)": PyMOL's
\* "s1 around r" is the atoms within r of s1 that are not in s1, so the residue of
\* the target is not among the residues returned. Which other residues are
\* within the radius is the structure's business.
PymolNeighbours(t) == SUBSET ((PoseIdx \ {t}) \cup {0})

\* NeighborhoodResidueSelector(resi_sele, radius, True).apply(pose), lines 178-180:
\* include_focus_in_subset is True, so the focus residue is in the subset
PyrosettaNeighbours(t) == {n \cup {t} : n \in SUBSET (PoseIdx \ {t})}

\* an engine call given pose index 0 (vector1[0], ResidueIndexSelector(0)):
\* the binding raises or the process dies
IndexError == [cls |-> "IndexError", text |-> "index 0"]

\* the new worker position, error and fault when the neighbourhood step
\* uses pose index 0 and the engine raises (how = "raise") or dies ("die")
IndexZero(how) ==
    /\ fault' = "index0"
    /\ IF how = "raise"
       THEN /\ error' = IndexError
            /\ raised_at' = "neighbours"
            /\ w_pc' = "except"
       ELSE /\ w_pc' = "crashed"
            /\ UNCHANGED <<error, raised_at>>
    /\ UNCHANGED <<neighbour_vector, stages>>

NeighboursDone(mask) ==
    /\ neighbour_vector' = mask
    /\ w_pc' = NextStep("neighbours")
    /\ stages' = Append(stages, "neighbours")
    /\ UNCHANGED <<error, raised_at, fault>>

\* Mutator.targets2vector, lines 162-167: neighbours[r] = True for every r, with
\* no test for r = 0. vector1 has no element 0: the write raises, kills the
\* process, or lands outside the vector and flags nothing.
Targets2Vector(rs) ==
    IF 0 \in rs
    THEN \/ \E how \in {"raise", "die"} : IndexZero(how)
         \/ NeighboursDone(rs \ {0})
    ELSE NeighboursDone(rs)

\* Mutator.calculate_neighbours_in_pyrosetta, lines 169-180: no test for r = 0.
\* ResidueIndexSelector(0) raises, kills the process, or selects no focus residue.
CalculateNeighboursInPyrosetta ==
    IF target = 0
    THEN \/ \E how \in {"raise", "die"} : IndexZero(how)
         \/ NeighboursDone({})
    ELSE \E mask \in PyrosettaNeighbours(target) : NeighboursDone(mask)

\* Mutator.__init__, lines 110-114
WNeighbours ==
    /\ w_pc = "neighbours"
    /\ IF use_pymol
       THEN \E rs \in PymolNeighbours(target) : Targets2Vector(rs)
       ELSE CalculateNeighboursInPyrosetta
    /\ UNCHANGED <<supvars, chan, initCalls, jobframe, pose, native, scores,
                   movemap, relax, nblock, data, sent>>

\* a FastRelax that goes Cartesian for any weight that is not zero
ReadyRelaxNonzero(weight, cycles) ==
    [cartesian |-> weight # 0, cycles |-> cycles]

\* Mutator.ready_relax, lines 188-197: FastRelax(self.scorefxn, cycles), and
\* cartesian(True) with the lbfgs minimiser when the weight of cart_bonded is > 0
ReadyRelax(weight, cycles) ==
    [cartesian |-> weight > 0, cycles |-> cycles]

\* self.ready_relax(self.cycles), lines 117 and 182-203
WReadyRelax ==
    /\ w_pc = "ready_relax"
    /\ movemap' = neighbour_vector
    /\ relax' = ReadyRelax(cart_bonded, ParatestCycles)
    /\ w_pc' = NextStep("ready_relax")
    /\ stages' = Append(stages, "ready_relax")
    /\ UNCHANGED <<supvars, chan, initCalls, jobframe, pose, native, scores,
                   neighbour_vector, nblock, data, error, histvars>>

\* a relax that sets up a movemap of its own, over the whole of chain A
WDoRelaxUnmasked ==
    /\ w_pc \in {"do_relax", "do_mutarelax"}
    /\ \E e \in Energies : pose' = [pose EXCEPT !.energy = e]
    /\ movemap' = PoseIdx
    /\ w_pc' = NextStep(w_pc)
    /\ stages' = Append(stages, w_pc)
    /\ UNCHANGED <<supvars, chan, initCalls, jobframe, native, scores, neighbour_vector,
                   relax, nblock, data, error, histvars>>

\* Mutator.do_relax, lines 221-222, called at lines 280 and 286
WDoRelax ==
    /\ w_pc \in {"do_relax", "do_mutarelax"}
    /\ \E e \in Energies : pose' = [pose EXCEPT !.energy = e]
    /\ w_pc' = NextStep(w_pc)
    /\ stages' = Append(stages, w_pc)
    /\ UNCHANGED <<supvars, chan, initCalls, jobframe, native, scores, neighbour_vector,
                   movemap, relax, nblock, data, error, histvars>>

\* self.native = self.pose.clone(); nblock = self.output_pdbblock(), lines 282-283
WCloneNative ==
    /\ w_pc = "clone_native"
    /\ native' = pose
    /\ nblock' = pose
    /\ w_pc' = NextStep("clone_native")
    /\ stages' = Append(stages, "clone_native")
    /\ UNCHANGED <<supvars, chan, initCalls, jobframe, pose, scores, neighbour_vector,
                   movemap, relax, data, error, histvars>>

\* the replaced residue loses its PDB numbering
MutateResidueRenumbered(p, i, aa, e) ==
    [energy |-> e,
     seq |-> [p.seq EXCEPT ![i] = aa],
     pdb_info |-> [p.pdb_info EXCEPT ![i] = [chain |-> " ", res |-> 0]]]

\* pyrosetta.toolbox.mutate_residue(p, i, aa): residue i becomes aa and the
\* pose is repacked to an energy e the engine decides; the PDB numbering of
\* the pose stays as it is
MutateResidue(p, i, aa, e) ==
    [energy |-> e, seq |-> [p.seq EXCEPT ![i] = aa], pdb_info |-> p.pdb_info]

\* Mutator.mutate('W'), lines 215-219 and 284
WMutate ==
    /\ w_pc = "mutate"
    /\ IF target = 0
       THEN /\ error' = NotInStructure
            /\ raised_at' = "mutate"
            /\ w_pc' = "except"
            /\ UNCHANGED <<pose, stages>>
       ELSE /\ \E e \in Energies : pose' = MutateResidue(pose, target, "W", e)
            /\ w_pc' = NextStep("mutate")
            /\ stages' = Append(stages, "mutate")
            /\ UNCHANGED <<error, raised_at>>
    /\ UNCHANGED <<supvars, chan, initCalls, jobframe, native, scores, neighbour_vector,
                   movemap, relax, nblock, data, fault, sent>>

\* the dict analyse_mutation returns, lines 288-302
AnalyseResultFromMutate(sc, nb, p, nv) ==
    [ddG |-> Score(sc, "mutate") - Score(sc, "relaxed"),
     scores |-> sc, native |-> nb, mutant |-> p, neighbours |-> nv]

AnalyseResult(sc, nb, p, nv) ==
    [ddG |-> Score(sc, "mutarelax") - Score(sc, "relaxed"),
     scores |-> sc, native |-> nb, mutant |-> p, neighbours |-> nv]

WResult ==
    /\ w_pc = "result"
    /\ data' = AnalyseResult(scores, nblock, pose, neighbour_vector)
    /\ w_pc' = NextStep("result")
    /\ stages' = Append(stages, "result")
    /\ UNCHANGED <<supvars, chan, initCalls, jobframe, pose, native, scores,
                   neighbour_vector, movemap, relax, nblock, error, histvars>>

\* child_conn.send(data), line 449
WSend ==
    /\ w_pc = "send"
    /\ chan' = Append(chan, data)
    /\ sent' = Append(sent, data)
    /\ w_pc' = NextStep("send")
    /\ UNCHANGED <<supvars, initCalls, jobframe, mutvars, error, raised_at, fault, stages>>

\* print('completed child'), line 450, and the process ends
WCompleted ==
    /\ w_pc = "completed"
    /\ w_pc' = NextStep("completed")
    /\ UNCHANGED <<supvars, chan, initCalls, jobframe, mutvars, error, histvars, stages>>

\* a call inside the try block raises
WRaise ==
    /\ w_pc \in TrySteps
    /\ \E e \in Exceptions : error' = e
    /\ raised_at' = w_pc
    /\ fault' = "engine"
    /\ w_pc' = "except"
    /\ UNCHANGED <<supvars, chan, initCalls, jobframe, mutvars, stages, sent>>

\* which exceptions the handler of line 451 takes: except BaseException
CatchesExceptionOnly(e) == e.cls # "KeyboardInterrupt"

Catches(e) == TRUE

\* lines 451-453: child_conn.send({'error': ...}), and the process ends
WExcept ==
    /\ w_pc = "except"
    /\ IF Catches(error)
       THEN /\ chan' = Append(chan, ErrorMsg(error))
            /\ sent' = Append(sent, ErrorMsg(error))
       ELSE UNCHANGED <<chan, sent>>
    /\ w_pc' = "exited"
    /\ UNCHANGED <<supvars, initCalls, jobframe, mutvars, error, raised_at, fault, stages>>

\* the engine kills the process (segmentation fault): nothing is sent
WSegfault ==
    /\ w_pc \in EngineSteps
    /\ w_pc' = "crashed"
    /\ fault' = "engine"
    /\ UNCHANGED <<supvars, chan, initCalls, jobframe, mutvars, error, raised_at, sent,
                   stages>>

\* an engine call never returns
WHang ==
    /\ w_pc \in EngineSteps
    /\ w_pc' = "hung"
    /\ fault' = "engine"
    /\ UNCHANGED <<supvars, chan, initCalls, jobframe, mutvars, error, raised_at, sent,
                   stages>>

\* ------------------------------------------------------------------- Next
Supervisor ==
    \/ SupStart
    \/ SupSleep
    \/ SupPrintPoll
    \/ SupPoll
    \/ SupIsAlive
    \/ SupRecv

Worker ==
    \/ WReinit
    \/ WScorefxn
    \/ WLoadPose
    \/ WMark
    \/ WNeighbours
    \/ WReadyRelax
    \/ WDoRelax
    \/ WCloneNative
    \/ WMutate
    \/ WResult
    \/ WSend
    \/ WCompleted
    \/ WRaise
    \/ WExcept
    \/ WSegfault
    \/ WHang

Next == Supervisor \/ Worker

Spec == Init /\ [][Next]_vars

\* the same job with either neighbourhood strategy in kwargs
InitJob ==
    /\ sup_pc = "start"
    /\ elapsed = 0
    /\ chan = <<>>
    /\ delivered = <<>>
    /\ w_pc = "unstarted"
    /\ initCalls = 0
    /\ target \in 0..NRes
    /\ use_pymol \in BOOLEAN
    /\ pose = NoPose
    /\ native = NoPose
    /\ scores = <<>>
    /\ neighbour_vector = NoMask
    /\ movemap = NoMask
    /\ cart_bonded = Ref2015CartBonded
    /\ relax = NoRelax
    /\ nblock = NoPose
    /\ data = NoData
    /\ error = NoError
    /\ raised_at = "none"
    /\ fault = "none"
    /\ stages = <<>>
    /\ sent = <<>>
    /\ ApiUnused
    /\ AnalyserUnused

JobSpec == InitJob /\ [][Next]_vars

\* both processes are scheduled: each takes its next step when it has one
FairSpec == Spec /\ WF_vars(Supervisor) /\ WF_vars(Worker)

\* ------------------------------------------------ a Mutator used directly
\* a constructed Mutator on which its methods are called one after the other
\* (precise mode: analyse_mutation; batch mode: repack_other, score_gnomads)

\* at most MaxCalls method calls are made on one Mutator
MaxCalls == 2
\* a list passed to score_gnomads has at most MaxGnomads records; gnomads is the
\* number of them the loop has not reached yet, and each record is drawn from
\* GnomadRecords when the loop reaches it
MaxGnomads == 2

\* the variables of paratest and of its worker
procvars == <<sup_pc, elapsed, chan, delivered, w_pc, initCalls, raised_at, fault,
              stages, sent>>

\* pose.pdb_info().pdb2pose(chain=..., res=...) of the structure loaded
Pdb2Pose(chain, res) == Lookup(PdbInfo, chain, res)

\* self.target, line 104: the (resi, chain) the index target stands for; index 0
\* stands for the residue in the gap of chain A
Target ==
    IF target = 0 THEN [resi |-> 1, chain |-> "A"]
    ELSE [resi |-> PdbInfo[target].res, chain |-> PdbInfo[target].chain]

\* Mutator.target_pdb2pose(self.target), lines 119-120, with self._pdb2pose the
\* pdb2pose of the PDBInfo of the pose load_pose made (line 141), here p
TargetPdb2Pose(p) == Lookup(p.pdb_info, Target.chain, Target.resi)

\* the batch methods resolving on the chain of the target
ChainOfTarget == Target.chain

\* chain='A', lines 335, 374 and 394
BatchChain == "A"

Digits == <<"1", "2", "3", "4", "5", "6", "7", "8", "9">>
IsDigit(c) == c = "0" \/ \E i \in 1..Len(Digits) : Digits[i] = c
\* \w of the characters used here
IsWord(c) == IsDigit(c) \/ c \in {"R", "Q", "K", "p", "_"}

Max(S) == CHOOSE k \in S : \A j \in S : j <= k

\* re.match(r'(\w)(\d+)([\w])', d), line 397: <<>> for None, else the groups
\* <<group(0), group(1), group(2), group(3)>>; \d+ is greedy and backtracks
ReMatch(d) ==
    LET ks == {k \in 1..(Len(d) - 2) :
                 /\ IsWord(d[1])
                 /\ \A j \in 2..(k + 1) : IsDigit(d[j])
                 /\ IsWord(d[k + 2])}
    IN IF ks = {} THEN <<>>
       ELSE LET k == Max(ks)
            IN <<SubSeq(d, 1, k + 2), d[1], SubSeq(d, 2, k + 1), d[k + 2]>>

\* gnomAD Variant records: missense ones at every residue number, the gap
\* included, a nonsense one, one whose description does not parse, and one
\* whose description goes on after the substitution
GnomadRecords ==
    {[type |-> "missense", x |-> x, description |-> <<"R", Digits[x], "Q">>] :
        x \in 1..(NRes + 1)}
    \cup {[type |-> "nonsense", x |-> 2, description |-> <<"R", "2", "*">>],
          [type |-> "missense", x |-> 2, description |-> <<"p", ".", "R", "2", "Q">>],
          [type |-> "missense", x |-> 2, description |-> <<"R", "2", "Q", " ", "(">>]}

\* the (from_residue, to_residue) pairs repack_other is called with
Substitutions == {<<"R", "Q">>}

\* cart_bonded weights range over -MaxWeight..MaxWeight, cycles over 1..MaxCycles
MaxWeight == 1
MaxCycles == 2
Weights == (0 - MaxWeight)..MaxWeight

\* a Mutator after __init__ with a score function whose cart_bonded weight is
\* weight: pose loaded, 'raw' marked, mask built, relax readied
Constructed(weight) ==
    /\ sup_pc = "start"
    /\ elapsed = 0
    /\ chan = <<>>
    /\ delivered = <<>>
    /\ w_pc = "unstarted"
    /\ initCalls = 0
    /\ target \in 0..ChainBIdx
    /\ use_pymol = TRUE
    /\ pose = [energy |-> 0, seq |-> [i \in StructIdx |-> "wt"], pdb_info |-> PdbInfo]
    /\ scores = Mark(<<>>, "raw", pose)
    /\ native = NoPose
    /\ neighbour_vector = PoseIdx \ {target}
    /\ movemap = neighbour_vector
    /\ cart_bonded = weight
    /\ relax \in {ReadyRelax(cart_bonded, cycles) : cycles \in 1..MaxCycles}
    /\ nblock = NoPose
    /\ data = NoData
    /\ error = NoError
    /\ raised_at = "none"
    /\ fault = "none"
    /\ stages = <<>>
    /\ sent = <<>>
    /\ ApiUnused
    /\ AnalyserUnused

\* Mutator(...) with scorefxn_name left at its default 'ref2015', line 67
InitMut == Constructed(Ref2015CartBonded) /\ relax.cycles = 1

CanCall == api_pc = "idle" /\ calls < MaxCalls

\* Mutator.ready_relax(cycles) called from outside, lines 182-203
ReadyRelaxCall ==
    /\ CanCall
    /\ \E cycles \in 1..MaxCycles : relax' = ReadyRelax(cart_bonded, cycles)
    /\ movemap' = neighbour_vector
    /\ calls' = calls + 1
    /\ UNCHANGED <<procvars, concvars, ptmvars,
                   target, use_pymol, cart_bonded, anvars, pose, native, scores,
                   neighbour_vector, nblock, data, error, api_pc, batch_calls,
                   gnomads, ddG, last_cand, last_record, ret>>

\* Mutator.do_relax() called from outside, lines 221-222
DoRelaxCall ==
    /\ CanCall
    /\ \E e \in Energies : pose' = [pose EXCEPT !.energy = e]
    /\ calls' = calls + 1
    /\ UNCHANGED <<procvars, concvars, ptmvars,
                   target, use_pymol, cart_bonded, anvars, native, scores,
                   neighbour_vector, movemap, relax, nblock, data, error, api_pc,
                   batch_calls, gnomads, ddG, last_cand, last_record, ret>>

\* Mutator.mark(label) called from outside, lines 205-213
MarkCall ==
    /\ CanCall
    /\ \E label \in {"raw", "custom"} : scores' = Mark(scores, label, pose)
    /\ calls' = calls + 1
    /\ UNCHANGED <<procvars, concvars, ptmvars,
                   target, use_pymol, cart_bonded, anvars, pose, native, neighbour_vector, movemap, relax,
                   nblock, data, error, api_pc, batch_calls, gnomads, ddG, last_cand, last_record,
                   ret>>

\* Mutator.analyse_mutation('W'), lines 279-302, the whole call
AnalyseMutation ==
    /\ CanCall
    /\ calls' = calls + 1
    /\ \E e1, e2, e3 \in Energies :
          LET relaxed == [pose EXCEPT !.energy = e1]
              sc1 == Mark(scores, "relaxed", relaxed)
              mutated == MutateResidue(relaxed, target, "W", e2)
              sc2 == Mark(sc1, "mutate", mutated)
              mutarelaxed == [mutated EXCEPT !.energy = e3]
              sc3 == Mark(sc2, "mutarelax", mutarelaxed)
          IN /\ native' = relaxed
             /\ nblock' = relaxed
             /\ IF target = 0
                THEN /\ error' = NotInStructure
                     /\ pose' = relaxed
                     /\ scores' = sc1
                     /\ data' = data
                ELSE /\ error' = error
                     /\ pose' = mutarelaxed
                     /\ scores' = sc3
                     /\ data' = AnalyseResult(sc3, relaxed, mutarelaxed, neighbour_vector)
    /\ UNCHANGED <<procvars, concvars, ptmvars,
                   target, use_pymol, cart_bonded, anvars, neighbour_vector, movemap, relax, api_pc,
                   batch_calls, gnomads, ddG, last_cand, last_record, ret>>

\* the pose _repack_gnomad works on
RepackBaseReused(p, nat) == p

\* self.pose = self.native.clone(), line 356
RepackBase(p, nat) == nat

\* Mutator._repack_gnomad(pose_idx, from_resi, to_resi), lines 355-369: the new
\* self.pose and the value returned; e1 and e2 are the energies after the packs
RepackGnomad(p, nat, idx, from, to, e1, e2) ==
    LET p1 == MutateResidue(RepackBase(p, nat), idx, from, e1)
        p2 == MutateResidue(p1, idx, to, e2)
    IN [pose |-> p2, ddg |-> Scorefxn(p2) - Scorefxn(p1)]

\* Mutator.repack_other(residue_index, from_residue, to_residue), lines 371-376.
\* pose_idx is not tested for 0: mutate_residue at index 0 raises in the engine
\* or kills the process.
RepackOther ==
    /\ CanCall
    /\ calls' = calls + 1
    /\ batch_calls' = batch_calls + 1
    /\ native' = pose
    /\ \E residue_index \in 1..(NRes + 1), ft \in Substitutions :
          LET pose_idx == Pdb2Pose(BatchChain, residue_index)
          IN IF pose_idx = 0
             THEN /\ pose' = RepackBase(pose, native')
                  /\ \/ error' = IndexError /\ api_pc' = api_pc
                     \/ error' = error /\ api_pc' = "crashed"
                  /\ UNCHANGED <<ret, last_cand>>
             ELSE \E e1, e2 \in Energies :
                     LET r == RepackGnomad(pose, native', pose_idx, ft[1], ft[2], e1, e2)
                     IN /\ pose' = r.pose
                        /\ ret' = [ddg |-> r.ddg, coordinates |-> r.pose]
                        /\ last_cand' = <<pose_idx, ft[2]>>
                        /\ UNCHANGED <<error, api_pc>>
    /\ UNCHANGED <<procvars, concvars, ptmvars,
                   target, use_pymol, cart_bonded, anvars, scores, neighbour_vector, movemap, relax,
                   nblock, data, gnomads, ddG, last_record>>

\* Mutator.score_gnomads(gnomads), lines 386-390: up to the loop
ScoreGnomadsStart ==
    /\ CanCall
    /\ calls' = calls + 1
    /\ batch_calls' = batch_calls + 1
    /\ api_pc' = "score_gnomads"
    /\ native' = pose
    /\ scores' = Mark(scores, "wt", pose)
    /\ ddG' = <<>>
    /\ gnomads' \in 0..MaxGnomads
    /\ last_cand' = <<>>
    /\ last_record' = NoRecord
    /\ ret' = NoRet
    /\ UNCHANGED <<procvars, concvars, ptmvars,
                   target, use_pymol, cart_bonded, anvars, pose, neighbour_vector, movemap, relax, nblock,
                   data, error>>

\* the loop body without its test of rex.group(0) in ddG
SkippedButForRepeat(record, dict) ==
    \/ record.type = "nonsense"
    \/ Pdb2Pose("A", record.x) = 0
    \/ ReMatch(record.description) = <<>>

\* the loop body without its test of n == 0
SkippedButForGap(record, dict) ==
    \/ record.type = "nonsense"
    \/ ReMatch(record.description) = <<>>
    \/ ReMatch(record.description)[1] \in Labels(dict)

\* whether the loop body of lines 392-402 skips the record
Skipped(record, dict) ==
    \/ record.type = "nonsense"
    \/ Pdb2Pose(BatchChain, record.x) = 0
    \/ ReMatch(record.description) = <<>>
    \/ ReMatch(record.description)[1] \in Labels(dict)

\* one turn of the loop of score_gnomads, lines 391-403
ScoreGnomadsRecord ==
    /\ api_pc = "score_gnomads"
    /\ gnomads > 0
    /\ gnomads' = gnomads - 1
    /\ \E record \in GnomadRecords :
          LET n == Pdb2Pose(BatchChain, record.x)
              rex == ReMatch(record.description)
          IN /\ last_record' = record
             /\ IF Skipped(record, ddG)
                THEN UNCHANGED <<pose, ddG, last_cand>>
                ELSE \E e1, e2 \in Energies :
                        LET r == RepackGnomad(pose, native, n, rex[2], rex[4], e1, e2)
                        IN /\ pose' = r.pose
                           /\ ddG' = DictSet(ddG, rex[1], r.ddg)
                           /\ last_cand' = <<n, rex[4]>>
    /\ UNCHANGED <<procvars, concvars, ptmvars,
                   target, use_pymol, cart_bonded, anvars, native, scores, neighbour_vector, movemap, relax,
                   nblock, data, error, api_pc, calls, batch_calls, ret>>

\* return ddG, line 404
ScoreGnomadsReturn ==
    /\ api_pc = "score_gnomads"
    /\ gnomads = 0
    /\ api_pc' = "idle"
    /\ ret' = [ddG |-> ddG]
    /\ UNCHANGED <<procvars, concvars, ptmvars,
                   target, use_pymol, cart_bonded, anvars, mutvars, error, calls, batch_calls,
                   gnomads, ddG, last_cand, last_record>>

NextMut ==
    \/ MarkCall
    \/ AnalyseMutation
    \/ RepackOther
    \/ ScoreGnomadsStart
    \/ ScoreGnomadsRecord
    \/ ScoreGnomadsReturn

MutSpec == InitMut /\ [][NextMut]_vars

\* a Mutator built with any score function, then readied and relaxed by its caller
InitRelax == \E weight \in Weights : Constructed(weight)

NextRelax == ReadyRelaxCall \/ DoRelaxCall \/ MarkCall

RelaxSpec == InitRelax /\ [][NextRelax]_vars

\* batch mode alone: a Mutator on which only repack_other and score_gnomads
\* are called
NextBatch ==
    \/ RepackOther
    \/ ScoreGnomadsStart
    \/ ScoreGnomadsRecord
    \/ ScoreGnomadsReturn

\* the target plays no part in batch mode: one resolved target is enough, and
\* it is the residue of chain B
InitBatch == InitMut /\ target = ChainBIdx

BatchSpec == InitBatch /\ [][NextBatch]_vars


\* ------------------------------------------------------------ make_phospho
\* a list passed to make_phospho has at most MaxPtms records; ptms is the number
\* of them the loop has not reached yet, and each record is drawn from
\* PtmRecords when the loop reaches it
MaxPtms == 2

\* strings whose characters are converted one by one are sequences of characters
UpperChar(c) ==
    CASE c = "l" -> "L"
      [] c = "y" -> "Y"
      [] c = "s" -> "S"
      [] c = "k" -> "K"
      [] OTHER -> c

\* str.upper()
Upper(str) == [i \in 1..Len(str) |-> UpperChar(str[i])]

\* Bio.SeqUtils.seq3 followed by .upper(), line 333: seq3 turns every character
\* of its argument into a three-letter code, 'Xaa' for a character that is not
\* a one-letter amino acid code (lower case letters included)
Seq3Char(c) ==
    CASE c = "S" -> "Ser"
      [] c = "K" -> "Lys"
      [] c = "L" -> "Leu"
      [] c = "Y" -> "Tyr"
      [] OTHER -> "Xaa"

UpperCode(t) ==
    CASE t = "Ser" -> "SER"
      [] t = "Lys" -> "LYS"
      [] t = "Leu" -> "LEU"
      [] t = "Tyr" -> "TYR"
      [] OTHER -> "XAA"

Seq3(str) == [i \in 1..Len(str) |-> Seq3Char(str[i])]

Seq3Upper(str) == [i \in 1..Len(str) |-> UpperCode(Seq3(str)[i])]

DigitVal(c) == IF c = "0" THEN 0 ELSE CHOOSE i \in 1..Len(Digits) : Digits[i] = c

\* int(record['residue_index']) of a string of digits, line 334
RECURSIVE ParseInt(_)
ParseInt(str) ==
    IF str = <<>> THEN 0
    ELSE 10 * ParseInt(SubSeq(str, 1, Len(str) - 1)) + DigitVal(str[Len(str)])

PtmKinds == {"ub", "p", "ac", "m1", "m2", "m3", "gal"}
FromResidues == {<<"S">>, <<"K">>, <<"L", "Y", "S">>, <<"l", "y", "s">>}

\* the records of a ptms list: kind, source residue, residue number (the gap
\* included)
PtmRecords ==
    [ptm : PtmKinds,
     from_residue : FromResidues,
     residue_index : {<<Digits[x]>> : x \in 1..(NRes + 1)}]

\* the methylation branches taken whatever the source residue
IsLysAlways(from) == TRUE

\* record['from_residue'].upper() == 'LYS', lines 321, 324, 327
IsLys(from) == Upper(from) = <<"L", "Y", "S">>

\* the if / elif chain of lines 315-332: the patch, or "skip" for continue
Patch(record) ==
    CASE record.ptm = "ub" -> "skip"
      [] record.ptm = "p" -> "phosphorylated"
      [] record.ptm = "ac" -> "acetylated"
      [] record.ptm = "m1" /\ IsLys(record.from_residue) -> "monomethylated"
      [] record.ptm = "m2" /\ IsLys(record.from_residue) -> "dimethylated"
      [] record.ptm = "m3" /\ IsLys(record.from_residue) -> "trimethylated"
      [] OTHER -> "skip"

\* what the engine accepts as the base name of new_res: one three-letter code
IsResidueName(name) == Len(name) = 1 /\ name[1] # "XAA"

RuntimeError == [cls |-> "RuntimeError", text |-> "unknown residue type"]

\* phospho = self.pose.clone(), line 310: per residue its type name and patch
PhosphoClone(p) == [i \in DOMAIN p.seq |-> [name |-> <<p.seq[i]>>, patch |-> "none"]]

\* make_phospho(ptms), lines 310-313: up to the loop
MakePhosphoStart ==
    /\ CanCall
    /\ calls' = calls + 1
    /\ api_pc' = "make_phospho"
    /\ phospho' = PhosphoClone(pose)
    /\ changes' = 0
    /\ applied' = 0
    /\ last_ptm' = NoPtm
    /\ ptms' \in 0..MaxPtms
    /\ ret' = NoRet
    /\ UNCHANGED <<procvars, concvars,
                   target, use_pymol, cart_bonded, anvars, mutvars, error, batch_calls, gnomads,
                   ddG, last_cand, last_record>>

\* a loop turn of a make_phospho that works on self.pose itself, not on a clone
MakePhosphoRecordInPlace ==
    /\ api_pc = "make_phospho"
    /\ ptms > 0
    /\ ptms' = ptms - 1
    /\ \E record \in PtmRecords :
          LET patch == Patch(record)
              new_res == [name |-> Seq3Upper(record.from_residue), patch |-> patch]
              r == Pdb2Pose(BatchChain, ParseInt(record.residue_index))
          IN IF patch = "skip" \/ r = 0 \/ ~IsResidueName(new_res.name)
             THEN /\ last_ptm' = [did |-> "skipped", record |-> record, r |-> r,
                                  new_res |-> new_res]
                  /\ UNCHANGED <<phospho, applied, pose>>
             ELSE /\ phospho' = [phospho EXCEPT ![r] = new_res]
                  /\ pose' = MutateResidue(pose, r, patch, pose.energy)
                  /\ applied' = applied + 1
                  /\ last_ptm' = [did |-> "applied", record |-> record, r |-> r,
                                  new_res |-> new_res]
    /\ UNCHANGED <<procvars, concvars,
                   target, use_pymol, cart_bonded, anvars, native, scores, neighbour_vector,
                   movemap, relax, nblock, data, error, api_pc, calls, batch_calls,
                   gnomads, ddG, last_cand, last_record, ret, changes>>

\* one turn of the loop of make_phospho, lines 314-337. MutateResidue with a
\* base name the engine does not know raises in the engine or kills the process.
MakePhosphoRecord ==
    /\ api_pc = "make_phospho"
    /\ ptms > 0
    /\ ptms' = ptms - 1
    /\ \E record \in PtmRecords :
          LET patch == Patch(record)
              new_res == [name |-> Seq3Upper(record.from_residue), patch |-> patch]
              r == Pdb2Pose(BatchChain, ParseInt(record.residue_index))
          IN IF patch = "skip" \/ r = 0
             THEN /\ last_ptm' = [did |-> "skipped", record |-> record, r |-> r,
                                  new_res |-> new_res]
                  /\ UNCHANGED <<phospho, applied, error, api_pc>>
             ELSE IF IsResidueName(new_res.name)
             THEN /\ phospho' = [phospho EXCEPT ![r] = new_res]
                  /\ applied' = applied + 1
                  /\ last_ptm' = [did |-> "applied", record |-> record, r |-> r,
                                  new_res |-> new_res]
                  /\ UNCHANGED <<error, api_pc>>
             ELSE /\ last_ptm' = [did |-> "fault", record |-> record, r |-> r,
                                  new_res |-> new_res]
                  /\ \/ error' = RuntimeError /\ api_pc' = "idle"
                     \/ error' = error /\ api_pc' = "crashed"
                  /\ UNCHANGED <<phospho, applied>>
    /\ UNCHANGED <<procvars, concvars,
                   target, use_pymol, cart_bonded, anvars, mutvars, calls, batch_calls, gnomads,
                   ddG, last_cand, last_record, ret, changes>>

\* return self.output_pdbblock(phospho), line 338
MakePhosphoReturn ==
    /\ api_pc = "make_phospho"
    /\ ptms = 0
    /\ api_pc' = "idle"
    /\ ret' = [pdbblock |-> phospho]
    /\ UNCHANGED <<procvars, concvars,
                   target, use_pymol, cart_bonded, anvars, mutvars, error, calls, batch_calls,
                   gnomads, ddG, last_cand, last_record, ptms, phospho, changes, last_ptm, applied>>

NextPtm ==
    \/ MakePhosphoStart
    \/ MakePhosphoRecord
    \/ MakePhosphoReturn

PtmSpec == InitBatch /\ [][NextPtm]_vars

\* ------------------------------------------- interleaved _repack_gnomad
\* NThreads executions of _repack_gnomad on one Mutator, interleaved statement
\* by statement. Pose objects are entries of heap; self.pose is a reference.
NThreads == 2
Threads == 1..NThreads

\* the statements of _repack_gnomad, lines 356-368, in order
RepackSteps == <<"clone", "mutate_from", "ref", "mutate_to", "return", "returned">>

NextRepackStep(pc) ==
    RepackSteps[1 + CHOOSE i \in 1..Len(RepackSteps) : RepackSteps[i] = pc]

\* the native reference is taken, as at line 387, and the executions are
\* started, each with its own pose_idx, from_resi and to_resi
ConcStart ==
    /\ api_pc = "idle"
    /\ threads = <<>>
    /\ native' = pose
    /\ \E idx \in [Threads -> PoseIdx], ft \in Substitutions :
          threads' = [t \in Threads |->
                        [pc |-> "clone", pose_idx |-> idx[t], from_resi |-> ft[1],
                         to_resi |-> ft[2], ref |-> -1, ddg |-> 0, touched |-> {}]]
    /\ api_pc' = "repack_gnomad"
    /\ UNCHANGED <<procvars, ptmvars, target, use_pymol, cart_bonded, anvars, pose, scores, neighbour_vector,
                   movemap, relax, nblock, data, error, calls, batch_calls, gnomads, ddG,
                   last_cand, last_record, ret, heap, self_pose>>

\* what the steps of the executions leave alone
concframe == <<procvars, ptmvars, target, use_pymol, cart_bonded, anvars, mutvars, error,
              apivars>>

AtStep(t, pc) == threads # <<>> /\ threads[t].pc = pc

\* self.pose = self.native.clone(), line 356
TClone ==
    \E t \in Threads :
        /\ AtStep(t, "clone")
        /\ heap' = Append(heap, native)
        /\ self_pose' = Len(heap) + 1
        /\ threads' = [threads EXCEPT ![t].pc = NextRepackStep("clone")]
        /\ UNCHANGED concframe

\* mutate_residue(self.pose, pose_idx, from_resi, ...), lines 357-361
TMutateFrom ==
    \E t \in Threads, e \in Energies :
        /\ AtStep(t, "mutate_from")
        /\ heap' = [heap EXCEPT ![self_pose] =
                       MutateResidue(@, threads[t].pose_idx, threads[t].from_resi, e)]
        /\ threads' = [threads EXCEPT ![t].pc = NextRepackStep("mutate_from"),
                                      ![t].touched = @ \cup {self_pose}]
        /\ UNCHANGED <<concframe, self_pose>>

\* ref = self.scorefxn(self.pose), line 362
TRef ==
    \E t \in Threads :
        /\ AtStep(t, "ref")
        /\ threads' = [threads EXCEPT ![t].pc = NextRepackStep("ref"),
                                      ![t].ref = Scorefxn(heap[self_pose]),
                                      ![t].touched = @ \cup {self_pose}]
        /\ UNCHANGED <<concframe, heap, self_pose>>

\* mutate_residue(self.pose, pose_idx, to_resi, ...), lines 363-367
TMutateTo ==
    \E t \in Threads, e \in Energies :
        /\ AtStep(t, "mutate_to")
        /\ heap' = [heap EXCEPT ![self_pose] =
                       MutateResidue(@, threads[t].pose_idx, threads[t].to_resi, e)]
        /\ threads' = [threads EXCEPT ![t].pc = NextRepackStep("mutate_to"),
                                      ![t].touched = @ \cup {self_pose}]
        /\ UNCHANGED <<concframe, self_pose>>

\* return self.scorefxn(self.pose) - ref, line 368
TReturn ==
    \E t \in Threads :
        /\ AtStep(t, "return")
        /\ threads' = [threads EXCEPT ![t].pc = NextRepackStep("return"),
                                      ![t].ddg = Scorefxn(heap[self_pose]) - threads[t].ref,
                                      ![t].touched = @ \cup {self_pose}]
        /\ UNCHANGED <<concframe, heap, self_pose>>

NextConc ==
    \/ ConcStart
    \/ TClone
    \/ TMutateFrom
    \/ TRef
    \/ TMutateTo
    \/ TReturn

ConcSpec == InitBatch /\ [][NextConc]_vars

\* ------------------------------------------------------- ProteinAnalyser
\* strings are sequences of one-character strings. Sequences have up to
\* MaxSeqLen residues
MaxSeqLen == 10
Residues == {"A", "G"}
Sequences == UNION {[1..n -> Residues] : n \in 0..MaxSeqLen}

\* 'ACDEFGHIKLMNPQRSTVWY', lines 125 and 151
AminoAcids == <<"A", "C", "D", "E", "F", "G", "H", "I", "K", "L", "M", "N", "P", "Q",
                "R", "S", "T", "V", "W", "Y">>

\* span=10, the default of _neighbours, line 76, and the value passed at lines
\* 186 and 187
Span == 10

\* Python's a in b for two strings: a is a substring of b
In(a, b) == \E k \in 0..(Len(b) - Len(a)) : \A i \in 1..Len(a) : b[k + i] = a[i]

\* Python's s[a:b]: a negative bound counts from the end, and both are clipped to
\* the string
SliceBound(i, n) == IF i < 0 THEN (IF i + n < 0 THEN 0 ELSE i + n) ELSE (IF i > n THEN n ELSE i)

Slice(str, a, b) ==
    LET lo == SliceBound(a, Len(str))
        hi == SliceBound(b, Len(str))
    IN IF lo >= hi THEN <<>> ELSE SubSeq(str, lo + 1, hi)

\* the value _neighbours returns when none of its three cases applies, line 103
ErrorText == <<"E", "R", "R", "O", "R", ".">>

\* '{pre}{m}{i}{m}{post}'.format(...), lines 88, 93 and 98
Format(pre, m, i, post) == pre \o m \o i \o m \o post

\* ProteinAnalyser._neighbours, lines 76-104
Neighbours(str, midresidue, position, marker, span) ==
    LET halfspan == span \div 2
    IN IF position < 5
       THEN Format(Slice(str, 0, position - 1), marker, midresidue,
                   Slice(str, position, position + halfspan))
       ELSE IF position > 5 /\ Len(str) > position + halfspan
       THEN Format(Slice(str, position - 1 - halfspan, position - 1), marker, midresidue,
                   Slice(str, position, position + halfspan))
       ELSE IF Len(str) < position + 5
       THEN Format(Slice(str, position - 1 - halfspan, position - 1), marker, midresidue,
                   Slice(str, position, Len(str)))
       ELSE ErrorText

\* ProteinAnalyser.check_mutation, lines 122-128; `and` does not evaluate its
\* right side when the left one is false
CheckMutation(str, mut) ==
    /\ Len(str) > mut.residue_index
    /\ <<str[mut.residue_index]>> = mut.from_residue
    /\ In(mut.to_residue, AminoAcids)

\* ProteinAnalyser.mutation_discrepancy, lines 130-154: the string returned,
\* by the case that wrote it, or the ValueError of line 154
MutationDiscrepancy(str, mut) ==
    IF Len(str) < mut.residue_index
    THEN [kind |-> "str", why |-> "length", neighbours |-> <<>>, mut_neighbours |-> <<>>]
    ELSE IF <<str[mut.residue_index]>> # mut.from_residue
    THEN [kind |-> "str", why |-> "from_residue",
          neighbours |-> Neighbours(str, <<str[mut.residue_index]>>, mut.residue_index,
                                    <<"*">>, Span),
          mut_neighbours |-> <<>>]
    ELSE IF ~In(mut.to_residue, AminoAcids)
    THEN [kind |-> "str", why |-> "missense", neighbours |-> <<>>, mut_neighbours |-> <<>>]
    ELSE [kind |-> "raise", why |-> "ValueError", neighbours |-> <<>>,
          mut_neighbours |-> <<>>]

\* mutations: a residue index from 1 to one past the longest sequence, a source
\* residue, and a missense or a nonsense target
Mutations ==
    [residue_index : 1..(MaxSeqLen + 1),
     from_residue : {<<r>> : r \in Residues},
     to_residue : {<<"G">>, <<"*">>}]

anframe == <<sup_pc, elapsed, chan, delivered, w_pc, initCalls, target, use_pymol,
             cart_bonded, mutvars, error, histvars, stages, apivars, ptmvars, concvars>>

\* predict_effect, lines 113-115: assert self.mutation, then check_mutation
PredictEffect ==
    /\ an_pc = "predict_effect"
    /\ an_pc' = IF CheckMutation(sequence, mutation)
                THEN "check_elm"
                ELSE "mutation_discrepancy"
    /\ UNCHANGED <<anframe, sequence, mutation, an_ret>>

\* raise ValueError(self.mutation_discrepancy()), line 116
RaiseDiscrepancy ==
    /\ an_pc = "mutation_discrepancy"
    /\ an_ret' = MutationDiscrepancy(sequence, mutation)
    /\ an_pc' = "raised"
    /\ UNCHANGED <<anframe, sequence, mutation>>

\* check_elm, lines 183-187: the neighbours of the wild type and of the mutant
CheckElm ==
    /\ an_pc = "check_elm"
    /\ LET position == mutation.residue_index
       IN an_ret' = [kind |-> "elm", why |-> "none",
                     neighbours |-> Neighbours(sequence, <<sequence[position]>>,
                                               position, <<>>, Span),
                     mut_neighbours |-> Neighbours(sequence, mutation.to_residue,
                                                   position, <<>>, Span)]
    /\ an_pc' = "checked_elm"
    /\ UNCHANGED <<anframe, sequence, mutation>>

\* a ProteinAnalyser with a sequence and a mutation, before predict_effect
InitAn ==
    /\ sequence \in Sequences
    /\ mutation \in Mutations
    /\ an_pc = "predict_effect"
    /\ an_ret = NoAnRet
    /\ sup_pc = "start"
    /\ elapsed = 0
    /\ chan = <<>>
    /\ delivered = <<>>
    /\ w_pc = "unstarted"
    /\ initCalls = 0
    /\ target = 0
    /\ use_pymol = TRUE
    /\ pose = NoPose
    /\ native = NoPose
    /\ scores = <<>>
    /\ neighbour_vector = NoMask
    /\ movemap = NoMask
    /\ cart_bonded = Ref2015CartBonded
    /\ relax = NoRelax
    /\ nblock = NoPose
    /\ data = NoData
    /\ error = NoError
    /\ raised_at = "none"
    /\ fault = "none"
    /\ stages = <<>>
    /\ sent = <<>>
    /\ ApiUnused

NextAn == PredictEffect \/ RaiseDiscrepancy \/ CheckElm

AnSpec == InitAn /\ [][NextAn]_vars

\* ------------------------------------------------------------- properties
WorkerDead == w_pc \in {"exited", "crashed"}

\* C1: a job run through the wait loop gives the caller exactly one result
\* message: recv() is called once, it never finds the pipe empty, and when
\* paratest is past it exactly one message has been returned.
C1_ExactlyOneResult ==
    /\ Len(delivered) <= 1
    /\ sup_pc = "done" => Len(delivered) = 1
    /\ sup_pc = "recv" => chan # <<>>

\* the worker died silently and the caller holds one message
C1_Witness ==
    /\ sup_pc = "done"
    /\ w_pc = "crashed"
    /\ Len(delivered) = 1

\* C2: a worker that terminates without having sent anything is detected by
\* the liveness check, and the caller then receives the synthesized
\* 'segmentation fault' record.
C2_CrashDetected ==
    (w_pc = "crashed") ~> (sup_pc = "done" /\ delivered = <<CrashMsg>>)

\* the worker was killed in the mutant relax and the caller got the crash record
C2_Witness ==
    /\ w_pc = "crashed"
    /\ stages # <<>>
    /\ stages[Len(stages)] = "mark_mutate"
    /\ sent = <<>>
    /\ sup_pc = "done"
    /\ delivered = <<CrashMsg>>

\* C3: once the wall-clock budget has passed with the worker alive and no
\* message, the supervisor stops waiting (terminates the worker, reports
\* Timeout): it never goes back to sleep with the budget used up.
C3_TimeoutEnforced ==
    ~(sup_pc = "sleep" /\ elapsed >= TimeoutPolls)

\* C4: the wait loop terminates whatever the worker does, a worker that stays
\* alive and silent forever included.
C4_AlwaysTerminates ==
    <>(sup_pc = "done")

\* C5: if the worker sent a result, the caller receives the worker's result
\* and not the supervisor's crash record, in every interleaving of poll and
\* is_alive with send and exit.
C5_WorkerResultWins ==
    (sup_pc = "done" /\ sent # <<>>) => delivered = sent

\* the race: poll() saw nothing, the worker sent and exited, is_alive() was
\* False and the crash record was written behind the worker's result
C5_Witness ==
    /\ sup_pc = "done"
    /\ sent # <<>>
    /\ delivered = sent
    /\ chan = <<CrashMsg>>

\* C6: an exception raised in reinit, in the Mutator construction or in
\* analyse_mutation is sent over the pipe as {'error': ...} before the worker
\* ends.
C6_ExceptionsReported ==
    (raised_at \in EngineSteps /\ w_pc = "exited") => sent = <<ErrorMsg(error)>>

\* a KeyboardInterrupt raised in the baseline relax reached the caller
C6_Witness ==
    /\ raised_at = "do_relax"
    /\ error.cls = "KeyboardInterrupt"
    /\ w_pc = "exited"
    /\ delivered = <<ErrorMsg(error)>>

\* C7: when the supervisor has the result, no worker process of the job is
\* still running.
C7_TornDown ==
    sup_pc = "done" => ~IsAlive

\* C8: the worker initialises the engine exactly once, as its first step,
\* before a structure is loaded or anything else is done with the engine.
C8_ReinitOnceFirst ==
    /\ initCalls <= 1
    /\ stages # <<>> => (stages[1] = "reinit" /\ initCalls = 1)
    /\ \A i \in 2..Len(stages) : stages[i] # "reinit"
    /\ pose # NoPose => initCalls = 1

\* a whole job ran with one initialisation
C8_Witness ==
    /\ w_pc = "exited"
    /\ initCalls = 1
    /\ IsSuccess(data)

\* the six stages of the claim, by the statement that performs each
ClaimStages == <<"load_pose", "neighbours", "do_relax", "mutate", "do_mutarelax", "result">>
SnapshotOrder == <<"raw", "relaxed", "mutate", "mutarelax">>

IsPrefix(a, b) == Len(a) <= Len(b) /\ \A i \in 1..Len(a) : a[i] = b[i]

StagesDone == SelectSeq(stages, LAMBDA x : \E i \in 1..Len(ClaimStages) : ClaimStages[i] = x)
LabelSeq(sc) == [i \in 1..Len(sc) |-> sc[i][1]]
Follows(a, b) ==
    \A i \in 1..Len(stages) : stages[i] = b => (i > 1 /\ stages[i - 1] = a)

StrictOrder ==
    /\ IsPrefix(StagesDone, ClaimStages)
    /\ IsPrefix(LabelSeq(scores), SnapshotOrder)
    /\ Follows("do_relax", "mark_relaxed")
    /\ Follows("mutate", "mark_mutate")
    /\ Follows("do_mutarelax", "mark_mutarelax")
    /\ \A i \in 1..Len(delivered) :
          IsSuccess(delivered[i]) => LabelSeq(delivered[i].scores) = SnapshotOrder

\* C9 as claimed: strict stage and snapshot order, the raw snapshot taken
\* once the mask exists.
C9_RawAfterMask ==
    /\ StrictOrder
    /\ "raw" \in Labels(scores) => neighbour_vector # NoMask

\* C9: strict stage and snapshot order, a Success holding all four snapshots;
\* the raw snapshot is taken straight after the load, before the mask is built.
C9_RawBeforeMask ==
    /\ StrictOrder
    /\ Follows("load_pose", "mark_raw")
    /\ neighbour_vector # NoMask => "raw" \in Labels(scores)

\* a Success with the four snapshots reached the caller
C9_Witness ==
    /\ sup_pc = "done"
    /\ IsSuccess(delivered[1])
    /\ StagesDone = ClaimStages

\* C10: the ddG of a Success is the mutarelax total minus the relaxed total of
\* the scores table in that same result.
C10_ddG ==
    \A i \in 1..Len(delivered) :
        IsSuccess(delivered[i]) =>
            delivered[i].ddG = Score(delivered[i].scores, "mutarelax")
                               - Score(delivered[i].scores, "relaxed")

\* a Success whose mutate and mutarelax totals differ
C10_Witness ==
    /\ sup_pc = "done"
    /\ IsSuccess(delivered[1])
    /\ Score(delivered[1].scores, "mutate") # Score(delivered[1].scores, "mutarelax")
    /\ delivered[1].ddG # 0

\* the native reference is the baseline-relaxed structure: what was written to
\* nblock when it was cloned, no residue substituted, its total the "relaxed" one
NativeIsBaseline ==
    native # NoPose =>
        /\ native = nblock
        /\ \A i \in PoseIdx : native.seq[i] = "wt"
        /\ native.energy = Score(scores, "relaxed")

\* C12: once analyse_mutation has cloned the baseline-relaxed pose as the
\* native reference, no later step changes it, and the native structure of the
\* result is that baseline-relaxed structure, without the substitution.
C12_NativeUntouched ==
    /\ []NativeIsBaseline
    /\ [][native # NoPose => native' = native]_vars
    /\ [](\A i \in 1..Len(delivered) :
            IsSuccess(delivered[i]) => delivered[i].native = native)

\* a Success whose mutant carries the substitution and whose native does not
C12_Witness ==
    /\ sup_pc = "done"
    /\ IsSuccess(delivered[1])
    /\ target # 0
    /\ delivered[1].mutant.seq[target] = "W"
    /\ delivered[1].native.seq[target] = "wt"
    /\ delivered[1].native.energy # delivered[1].mutant.energy

\* C13: for a target that is in the structure, the mask built at construction
\* has the target's own index flagged, under either strategy.
C13_MaskHasTarget ==
    (neighbour_vector # NoMask /\ target # 0) => target \in neighbour_vector

\* C14: a neighbour that does not resolve to a pose index is left out of the
\* mask without any error: targets2vector neither raises nor kills the worker.
C14_UnresolvedDropped ==
    use_pymol => fault # "index0"

\* C15: a job whose target is not in the structure ends with the 'Residue not
\* in structure' Failure delivered to the caller, under either strategy (runs
\* with an engine fault of their own, and PyMOL runs that hit the unresolved
\* neighbour of C14, set aside).
C15_UnmappedTarget ==
    (/\ target = 0
     /\ sup_pc = "done"
     /\ fault # "engine"
     /\ ~(use_pymol /\ fault = "index0"))
        => delivered = <<ErrorMsg(NotInStructure)>>

\* C11: over any sequence of calls on one Mutator (mark, analyse_mutation once
\* or repeatedly, score_gnomads, repack_other), a label once in the scores
\* table stays in it with the value first recorded for it.
C11_LabelsNeverOverwritten ==
    [][\A l \in Labels(scores) :
          l \in Labels(scores') /\ Score(scores', l) = Score(scores, l)]_vars

\* the working copy is the native reference with the last scored candidate's
\* substitution and nothing else
WorkingCopyIsFreshClone ==
    (api_pc = "score_gnomads" /\ last_cand # <<>>) =>
        pose.seq = [native.seq EXCEPT ![last_cand[1]] = last_cand[2]]

\* C18: within one score_gnomads call every candidate is applied to a fresh
\* clone of the native reference taken at the start of the call, the native
\* reference is not modified by the loop, and a ddG once recorded is not changed
\* by the scoring of a later candidate.
C18_FreshClonePerCandidate ==
    /\ []WorkingCopyIsFreshClone
    /\ [][api_pc = "score_gnomads" => native' = native]_vars
    /\ [][(api_pc = "score_gnomads" /\ api_pc' = "score_gnomads") =>
             \A k \in Labels(ddG) :
                k \in Labels(ddG') /\ Score(ddG', k) = Score(ddG, k)]_vars

\* two candidates at different residues scored in one call: the working copy
\* carries the second one only
C18_Witness ==
    /\ api_pc = "score_gnomads"
    /\ Len(ddG) = 2
    /\ last_cand # <<>>
    /\ \E i \in PoseIdx : i # last_cand[1] /\ pose.seq[i] = native.seq[i]
    /\ pose.seq[last_cand[1]] = "Q"
    /\ native.seq[last_cand[1]] # "Q"

\* C20: over any sequence of repack_other and score_gnomads calls the native
\* reference never carries a candidate's substitution.
C20_NativeNeverSubstituted ==
    native # NoPose => \A i \in PoseIdx : native.seq[i] = "wt"

\* the Failure the claim names
NoApplicableSubstitution == [error |-> <<"NoApplicableSubstitution">>]

\* C16: a make_phospho call in which every record was skipped returns the
\* NoApplicableSubstitution Failure; one in which some record was applied
\* returns the structure, and its count of changes is the number applied.
C16_PtmOutcome ==
    (api_pc = "idle" /\ ret # NoRet /\ last_ptm.did # "none") =>
        IF applied = 0
        THEN ret = NoApplicableSubstitution
        ELSE "pdbblock" \in DOMAIN ret /\ changes = applied

\* the source residue is lysine, in one-letter or three-letter code
IsLysine(from) == Upper(from) \in {<<"K">>, <<"L", "Y", "S">>}

\* what make_phospho did with the record it looked at last, against its kind
PtmClassified ==
    last_ptm.did # "none" =>
        LET rec == last_ptm.record
            did == last_ptm.did
        IN /\ rec.ptm = "ub" => did = "skipped"
           /\ (rec.ptm \in {"m1", "m2", "m3"} /\ did # "skipped")
                 => IsLysine(rec.from_residue)
           /\ (rec.ptm = "p" /\ did # "skipped")
                 => last_ptm.new_res.patch = "phosphorylated"
           /\ (rec.ptm = "ac" /\ did # "skipped")
                 => last_ptm.new_res.patch = "acetylated"
           /\ rec.ptm \notin {"ub", "p", "ac", "m1", "m2", "m3"} => did = "skipped"
           /\ last_ptm.r = 0 => did = "skipped"
           /\ did = "applied" => phospho[last_ptm.r] = last_ptm.new_res

C19_OwnWorkingCopy ==
    threads # <<>> =>
        \A t1, t2 \in Threads :
            t1 # t2 => threads[t1].touched \cap threads[t2].touched = {}

\* a variant the batch has to pass over: nonsense, at a residue that is not in
\* the structure, or with a description that does not begin with a substitution
Unscorable(record) ==
    \/ record.type = "nonsense"
    \/ Pdb2Pose("A", record.x) = 0
    \/ ReMatch(record.description) = <<>>

\* a turn of the loop of score_gnomads
LoopTurn == api_pc = "score_gnomads" /\ gnomads' = gnomads - 1

\* C21: in the loop of score_gnomads an unscorable variant is passed over
\* without raising and without touching the results, every other variant has
\* its ddG in the results after its turn, and the loop ends only when the
\* list is exhausted.
C21_SkipNotFatal ==
    /\ [][LoopTurn =>
            /\ error' = error
            /\ api_pc' = "score_gnomads"
            /\ Unscorable(last_record') => (ddG' = ddG /\ pose' = pose)
            /\ ~Unscorable(last_record') =>
                  ReMatch(last_record'.description)[1] \in Labels(ddG')]_vars
    /\ [][(api_pc = "score_gnomads" /\ api_pc' # "score_gnomads") => gnomads = 0]_vars

\* a missense variant in missing density passed over after another was scored,
\* during the loop
C21_Witness ==
    /\ api_pc = "score_gnomads"
    /\ last_record.type = "missense"
    /\ Pdb2Pose("A", last_record.x) = 0
    /\ ReMatch(last_record.description) # <<>>
    /\ Len(ddG) = 1
    /\ error = NoError

\* C22: a Failure delivered for a job in which a step raised carries the name
\* of the step the exception came from.
C22_FailureNamesStage ==
    \A i \in 1..Len(delivered) :
        (IsFailure(delivered[i]) /\ raised_at # "none") =>
            \E j \in 1..Len(delivered[i].error) : delivered[i].error[j] = raised_at

\* C23: every message delivered to the caller is a Success record (with its
\* ddG, scores and native and mutant structures) or a Failure record, and
\* never both, whether the worker or the supervisor produced it.
C23_SuccessXorFailure ==
    \A i \in 1..Len(delivered) :
        LET m == delivered[i]
        IN /\ IsSuccess(m) # IsFailure(m)
           /\ IsSuccess(m) => {"ddG", "scores", "native", "mutant"} \subseteq DOMAIN m
           /\ IsFailure(m) => DOMAIN m = {"error"}

\* the caller has the Failure the worker sent for the unmapped target
C23_Witness ==
    /\ sup_pc = "done"
    /\ raised_at = "mutate"
    /\ delivered = sent
    /\ Len(delivered) = 1
    /\ IsFailure(delivered[1])
    /\ ~IsSuccess(delivered[1])

C25_MaskFixed ==
    /\ [][neighbour_vector # NoMask => neighbour_vector' = neighbour_vector]_vars
    /\ [][movemap # NoMask => movemap' = movemap]_vars
    /\ [](w_pc \in {"do_relax", "do_mutarelax"} =>
            (movemap # NoMask /\ movemap = neighbour_vector))

\* the mutant relax has run, with a mask that is neither empty nor everything
C25_Witness ==
    /\ w_pc = "mark_mutarelax"
    /\ movemap = neighbour_vector
    /\ movemap # {}
    /\ movemap # PoseIdx
    /\ pose.seq[target] = "W"

\* C26: the relax is Cartesian exactly when the score function gives cart_bonded
\* a weight that is not zero; the cycles the caller passes do not switch it
C26_CartesianIffNonzero ==
    (calls > 0 /\ relax # NoRelax) => (relax.cartesian <=> cart_bonded # 0)

\* C27: once the loop has exited and recv() has returned, the pipe holds no
\* unread message; at no time does it hold both a message the worker sent and
\* the crash record written by the supervisor
C27_ChannelDrained ==
    /\ sup_pc = "done" => chan = <<>>
    /\ ~ \E i, j \in 1..Len(chan) :
            /\ chan[j] = CrashMsg
            /\ \E k \in 1..Len(sent) : chan[i] = sent[k]

\* C28: make_phospho works on a clone: no step of it changes the working pose,
\* the native reference, the neighbourhood mask or the score snapshots
C28_PhosphoOnClone ==
    [][(api_pc = "make_phospho" \/ api_pc' = "make_phospho") =>
          /\ pose' = pose
          /\ native' = native
          /\ neighbour_vector' = neighbour_vector
          /\ scores' = scores]_vars

\* a call has returned a structure with a patched residue that the working pose
\* does not have
C28_Witness ==
    /\ api_pc = "idle"
    /\ "pdbblock" \in DOMAIN ret
    /\ applied = MaxPtms
    /\ \E i \in PoseIdx : ret.pdbblock[i].patch = "acetylated" /\ pose.seq[i] = "wt"

KeysDistinct(dict) == \A i, j \in 1..Len(dict) : dict[i][1] = dict[j][1] => i = j

\* C29 as stated: score_gnomads holds at most one ddG per description, a
\* description already scored is not scored again, and every key is the
\* description of a variant that was not skipped
C29_KeysAreDescriptions ==
    /\ [][LoopTurn =>
            /\ last_record'.description \in Labels(ddG) => ddG' = ddG
            /\ ddG' # ddG =>
                  /\ ~Unscorable(last_record')
                  /\ Labels(ddG') = Labels(ddG) \cup {last_record'.description}]_vars
    /\ [](api_pc = "score_gnomads" => KeysDistinct(ddG))

\* C29, amended: the keys are the substitutions matched at the start of the
\* descriptions (rex.group(0)): at most one ddG per matched substitution, a
\* substitution already scored is not scored again, and every key is the
\* substitution matched in the description of a variant that was not skipped
C29_KeysAreMatches ==
    /\ [][LoopTurn =>
            LET rex == ReMatch(last_record'.description)
            IN /\ (rex # <<>> /\ rex[1] \in Labels(ddG)) => ddG' = ddG
               /\ ddG' # ddG =>
                     /\ ~Unscorable(last_record')
                     /\ Len(ddG') = Len(ddG) + 1
                     /\ \A i \in 1..Len(ddG) : ddG'[i] = ddG[i]
                     /\ ddG'[Len(ddG')][1] = rex[1]]_vars
    /\ [](api_pc = "score_gnomads" => KeysDistinct(ddG))

\* a variant whose description goes on after the substitution has been looked
\* at, and the one key held is the substitution alone
C29_Witness ==
    /\ api_pc = "score_gnomads"
    /\ gnomads = 0
    /\ last_record.description = <<"R", "2", "Q", " ", "(">>
    /\ Len(ddG) = 1
    /\ ddG[1][1] = <<"R", "2", "Q">>

\* C30: repack_other, score_gnomads and make_phospho resolve residue numbers on
\* chain 'A': on a Mutator whose target is on another chain, the residue they
\* modify is on chain 'A' and the residue of the target chain is left as it was
C30_ResolvedOnChainA ==
    Target.chain # "A" =>
        /\ last_cand # <<>> =>
              /\ pose.pdb_info[last_cand[1]].chain = "A"
              /\ pose.seq[last_cand[1]] = last_cand[2]
        /\ pose.seq[target] = "wt"
        /\ last_ptm.did = "applied" =>
              /\ pose.pdb_info[last_ptm.r].chain = "A"
              /\ phospho[last_ptm.r].patch # "none"
              /\ phospho[target].patch = "none"

\* the target is residue 2 of chain B, and the variant at residue number 2 has
\* been scored on residue 2 of chain A
C30_Witness ==
    /\ Target = [resi |-> 2, chain |-> "B"]
    /\ api_pc = "score_gnomads"
    /\ last_record.x = 2
    /\ last_cand = <<Pdb2Pose("A", 2), "Q">>
    /\ pose.seq[Pdb2Pose("A", 2)] = "Q"
    /\ pose.seq[target] = "wt"

\* C31: whenever check_mutation has returned False, for a residue index from 1
\* to beyond the end of the sequence, mutation_discrepancy returns a string
\* that explains the discrepancy, and does not raise
C31_DiscrepancyExplained ==
    (an_pc = "raised" /\ ~CheckMutation(sequence, mutation)) =>
        /\ an_ret.kind = "str"
        /\ an_ret.why \in {"length", "from_residue", "missense"}

\* the stretch around position: up to 5 residues before it, midresidue between
\* two markers, up to 5 residues after it, clipped at the ends of the sequence
Stretch(str, midresidue, position, marker) ==
    LET first == IF position - 5 < 1 THEN 1 ELSE position - 5
        last == IF position + 5 > Len(str) THEN Len(str) ELSE position + 5
    IN SubSeq(str, first, position - 1) \o marker \o midresidue \o marker
       \o SubSeq(str, position + 1, last)

\* C32: for a position from 1 to the length of the sequence, _neighbours with
\* span 10 returns the stretch around the position and never 'ERROR.'
C32_NeighboursStretch ==
    LET position == mutation.residue_index
    IN /\ an_ret.kind = "elm" =>
            /\ an_ret.neighbours # ErrorText
            /\ an_ret.mut_neighbours # ErrorText
            /\ an_ret.neighbours = Stretch(sequence, <<sequence[position]>>, position, <<>>)
            /\ an_ret.mut_neighbours = Stretch(sequence, mutation.to_residue, position, <<>>)
       /\ an_ret.why = "from_residue" =>
            /\ an_ret.neighbours # ErrorText
            /\ an_ret.neighbours = Stretch(sequence, <<sequence[position]>>, position, <<"*">>)

=============================================================================
